---- MODULE Spec2Model ----
(***************************************************************************)
(* Model of streamlit_app.py: a dictionary-based text classifier.          *)
(*                                                                         *)
(* The session state holds the keyword dictionaries (category -> set of    *)
(* keywords).  Three handlers act on it: Save Changes (parse the JSON of   *)
(* the text area and replace the dictionaries), Reset (reset_to_default)   *)
(* and Run Classification (tag every row of the uploaded CSV).  The text   *)
(* area itself is filled with json.dumps of the dictionaries.              *)
(*                                                                         *)
(* Every Python string is a tuple of one-character strings, so that        *)
(* str(), lower(), the substring test `word in lower` and ", ".join are    *)
(* computed as the interpreter computes them.  A Python set is a tuple      *)
(* without repetitions: its elements in the order in which it iterates.    *)
(*                                                                         *)
(* Each handler is one action, taken on its own: the drawing of the editor *)
(* (RenderEditor), Save, Reset and the two ways to run a classification.   *)
(* What a handler does is thereby described also where an earlier line    *)
(* of the same script run raises.                                          *)
(***************************************************************************)
EXTENDS Naturals, Sequences, FiniteSets, TLC

VARIABLES
    dictionaries,   \* st.session_state["dictionaries"]: <<[name, words]>> in dict order
    dict_text,      \* st.session_state["dict_text"]: the text of the editor
    msg,            \* what the last handler surfaced
    output,         \* the annotated frame offered for download, if any
    in_df,          \* the upload the last classification run read
    tag_lists,      \* what get_tags gave for each row while Tags was built
    calls,          \* number of get_tags evaluations of the last run
    lastOp          \* the last handler

vars == <<dictionaries, dict_text, msg, output, in_df, tag_lists, calls,
          lastOp>>

\* Largest number of rows of an uploaded file.
MaxRows == 2

Range(f) == {f[i] : i \in DOMAIN f}

RECURSIVE Perms(_)
\* Every order in which the elements of S can be iterated.
Perms(S) ==
    IF S = {} THEN {<<>>}
    ELSE UNION {{<<x>> \o p : p \in Perms(S \ {x})} : x \in S}

(***************************************************************************)
(* Python strings                                                          *)
(***************************************************************************)
UpperLetters == <<"A", "B", "C", "D", "E", "F", "G", "H", "I", "J", "K", "L", "M", "N", "O", "P", "Q", "R", "S", "T", "U", "V", "W", "X", "Y", "Z">>
LowerLetters == <<"a", "b", "c", "d", "e", "f", "g", "h", "i", "j", "k", "l", "m", "n", "o", "p", "q", "r", "s", "t", "u", "v", "w", "x", "y", "z">>

\* str.lower() on one character.
LowerChar(c) ==
    IF \E i \in 1..Len(UpperLetters) : UpperLetters[i] = c
    THEN LowerLetters[CHOOSE i \in 1..Len(UpperLetters) : UpperLetters[i] = c]
    ELSE c

\* str.lower()
lower(s) == [i \in 1..Len(s) |-> LowerChar(s[i])]

\* `w in t` for two strings: w is a contiguous substring of t.
IsSubstr(w, t) ==
    \E i \in 0..Len(t) : i + Len(w) <= Len(t) /\ SubSeq(t, i + 1, i + Len(w)) = w

RECURSIVE Join(_, _)
\* sep.join(names)
Join(sep, names) ==
    IF names = <<>> THEN <<>>
    ELSE IF Len(names) = 1 THEN names[1]
    ELSE names[1] \o sep \o Join(sep, Tail(names))

\* A scalar value: a string, a number, None/null, a bool or a missing float (nan).
\* s is the text of the value.
Str(s)  == [t |-> "str", s |-> s]
Num(s)  == [t |-> "num", s |-> s]
None    == [t |-> "null", s |-> <<"N", "o", "n", "e">>]
NaN     == [t |-> "nan", s |-> <<"n", "a", "n">>]
Bool(b) == [t |-> "bool", s |-> IF b THEN <<"T", "r", "u", "e">> ELSE <<"F", "a", "l", "s", "e">>]

\* str(x)
PyStr(x) == x.s

(***************************************************************************)
(* DEFAULT_DICTIONARIES                                                    *)
(***************************************************************************)
STATEMENT == <<"S", "t", "a", "t", "e", "m", "e", "n", "t">>
TAGS == <<"T", "a", "g", "s">>
urgency_marketing == <<"u", "r", "g", "e", "n", "c", "y", "_", "m", "a", "r", "k", "e", "t", "i", "n", "g">>
exclusive_marketing == <<"e", "x", "c", "l", "u", "s", "i", "v", "e", "_", "m", "a", "r", "k", "e", "t", "i", "n", "g">>

DEFAULT_DICTIONARIES ==
    << [name |-> urgency_marketing,
        words |-> << Str(<<"l", "i", "m", "i", "t", "e", "d">>), Str(<<"l", "i", "m", "i", "t", "e", "d", " ", "t", "i", "m", "e">>), Str(<<"l", "i", "m", "i", "t", "e", "d", " ", "r", "u", "n">>),
                     Str(<<"l", "i", "m", "i", "t", "e", "d", " ", "e", "d", "i", "t", "i", "o", "n">>), Str(<<"o", "r", "d", "e", "r", " ", "n", "o", "w">>), Str(<<"l", "a", "s", "t", " ", "c", "h", "a", "n", "c", "e">>),
                     Str(<<"h", "u", "r", "r", "y">>), Str(<<"w", "h", "i", "l", "e", " ", "s", "u", "p", "p", "l", "i", "e", "s", " ", "l", "a", "s", "t">>),
                     Str(<<"b", "e", "f", "o", "r", "e", " ", "t", "h", "e", "y", "'", "r", "e", " ", "g", "o", "n", "e">>), Str(<<"s", "e", "l", "l", "i", "n", "g", " ", "o", "u", "t">>),
                     Str(<<"s", "e", "l", "l", "i", "n", "g", " ", "f", "a", "s", "t">>), Str(<<"a", "c", "t", " ", "n", "o", "w">>), Str(<<"d", "o", "n", "'", "t", " ", "w", "a", "i", "t">>),
                     Str(<<"t", "o", "d", "a", "y", " ", "o", "n", "l", "y">>), Str(<<"e", "x", "p", "i", "r", "e", "s", " ", "s", "o", "o", "n">>), Str(<<"f", "i", "n", "a", "l", " ", "h", "o", "u", "r", "s">>),
                     Str(<<"a", "l", "m", "o", "s", "t", " ", "g", "o", "n", "e">>) >>],
       [name |-> exclusive_marketing,
        words |-> << Str(<<"e", "x", "c", "l", "u", "s", "i", "v", "e">>), Str(<<"e", "x", "c", "l", "u", "s", "i", "v", "e", "l", "y">>), Str(<<"e", "x", "c", "l", "u", "s", "i", "v", "e", " ", "o", "f", "f", "e", "r">>),
                     Str(<<"e", "x", "c", "l", "u", "s", "i", "v", "e", " ", "d", "e", "a", "l">>), Str(<<"m", "e", "m", "b", "e", "r", "s", " ", "o", "n", "l", "y">>), Str(<<"v", "i", "p">>),
                     Str(<<"s", "p", "e", "c", "i", "a", "l", " ", "a", "c", "c", "e", "s", "s">>), Str(<<"i", "n", "v", "i", "t", "a", "t", "i", "o", "n", " ", "o", "n", "l", "y">>), Str(<<"p", "r", "e", "m", "i", "u", "m">>),
                     Str(<<"p", "r", "i", "v", "i", "l", "e", "g", "e", "d">>), Str(<<"l", "i", "m", "i", "t", "e", "d", " ", "a", "c", "c", "e", "s", "s">>),
                     Str(<<"s", "e", "l", "e", "c", "t", " ", "c", "u", "s", "t", "o", "m", "e", "r", "s">>), Str(<<"i", "n", "s", "i", "d", "e", "r">>), Str(<<"p", "r", "i", "v", "a", "t", "e", " ", "s", "a", "l", "e">>),
                     Str(<<"e", "a", "r", "l", "y", " ", "a", "c", "c", "e", "s", "s">>) >>] >>

\* The categories of a dictionary set, in dict iteration order.
Names(D) == [i \in 1..Len(D) |-> D[i].name]

(***************************************************************************)
(* JSON                                                                    *)
(***************************************************************************)
\* A JSON document: scalars, lists and objects (pairs in textual order).
JScalar(x) == [t |-> x.t, s |-> x.s, items |-> <<>>, pairs |-> <<>>]
JList(items) == [t |-> "list", s |-> <<>>, items |-> items, pairs |-> <<>>]
JObj(pairs) == [t |-> "obj", s |-> <<>>, items |-> <<>>, pairs |-> pairs]
\* The text of the editor: well-formed JSON text of a document, or not JSON.
JsonText(doc) == [wf |-> TRUE, doc |-> doc]
NotJson == [wf |-> FALSE, doc |-> JScalar(None)]

RECURSIVE DictFromPairs(_)
\* A Python dict built by inserting the pairs in order: a repeated key keeps
\* its first position and takes the last value.
DictFromPairs(pairs) ==
    IF pairs = <<>> THEN <<>>
    ELSE LET n == Len(pairs)
             front == DictFromPairs(SubSeq(pairs, 1, n - 1))
         IN IF \E i \in 1..Len(front) : front[i].k = pairs[n].k
            THEN [i \in 1..Len(front) |->
                    IF front[i].k = pairs[n].k THEN pairs[n] ELSE front[i]]
            ELSE Append(front, pairs[n])

\* json.loads(text): JSONDecodeError on text that is not JSON; objects become dicts.
json_loads(text) ==
    IF ~text.wf THEN [ok |-> FALSE, val |-> JScalar(None)]
    ELSE [ok |-> TRUE,
          val |-> IF text.doc.t = "obj"
                  THEN JObj(DictFromPairs(text.doc.pairs))
                  ELSE text.doc]

\* json.dumps(D) of a dictionary set: every value is a Python set, which the
\* encoder rejects with TypeError; only the mapping without entries encodes.
json_dumps(D) ==
    IF \E i \in 1..Len(D) : TRUE
    THEN [ok |-> FALSE, text |-> NotJson]
    ELSE [ok |-> TRUE, text |-> JsonText(JObj(<<>>))]

\* set(v): the elements, or TypeError (v is not iterable, or an element is
\* unhashable).  A string gives its characters, a dict its keys.
PySet(v) ==
    CASE v.t = "list" ->
            IF \E i \in 1..Len(v.items) : v.items[i].t \in {"list", "obj"}
            THEN [ok |-> FALSE, elems |-> {}]
            ELSE [ok |-> TRUE,
                  elems |-> {[t |-> v.items[i].t, s |-> v.items[i].s] :
                                i \in 1..Len(v.items)}]
      [] v.t = "str" -> [ok |-> TRUE, elems |-> {Str(<<v.s[i]>>) : i \in 1..Len(v.s)}]
      [] v.t = "obj" ->
            [ok |-> TRUE, elems |-> {Str(p.k) : p \in Range(DictFromPairs(v.pairs))}]
      [] OTHER -> [ok |-> FALSE, elems |-> {}]

(***************************************************************************)
(* Save Changes and Reset                                                  *)
(***************************************************************************)
RECURSIVE Cleaned(_)
\* {k: set(v) for k, v in parsed_dict.items()}: one result for each order in
\* which the new sets may iterate.  Empty when some set(v) raises.
Cleaned(pairs) ==
    IF pairs = <<>> THEN {<<>>}
    ELSE IF ~PySet(pairs[1].v).ok THEN {}
    ELSE {<<[name |-> pairs[1].k, words |-> w]>> \o rest :
            w \in Perms(PySet(pairs[1].v).elems), rest \in Cleaned(Tail(pairs))}

RECURSIVE Merge(_, _)
\* P with the entries of Q assigned into it one by one.
Merge(P, Q) ==
    IF Q = <<>> THEN P
    ELSE Merge(IF \E i \in 1..Len(P) : P[i].name = Q[1].name
               THEN [i \in 1..Len(P) |-> IF P[i].name = Q[1].name THEN Q[1] ELSE P[i]]
               ELSE Append(P, Q[1]),
               Tail(Q))

\* A Save Changes handler that assigns each category into the stored
\* dictionaries as it is converted instead of replacing them at the end.
SaveChanges_in_place(P, text) ==
    LET parsed_dict == json_loads(text)
        bad == IF parsed_dict.ok /\ parsed_dict.val.t = "obj"
               THEN {i \in 1..Len(parsed_dict.val.pairs) :
                        ~PySet(parsed_dict.val.pairs[i].v).ok}
               ELSE {}
    IN IF ~parsed_dict.ok \/ parsed_dict.val.t # "obj"
       THEN {[dictionaries |-> P, msg |-> "error"]}
       ELSE IF bad = {}
       THEN {[dictionaries |-> c, msg |-> "success"] : c \in Cleaned(parsed_dict.val.pairs)}
       ELSE LET first == CHOOSE i \in bad : \A j \in bad : i <= j
            IN {[dictionaries |-> Merge(P, c), msg |-> "error"] :
                  c \in Cleaned(SubSeq(parsed_dict.val.pairs, 1, first - 1))}

\* The Save Changes handler on stored dictionaries P and editor text `text`:
\* the possible (dictionaries, message) afterwards.
SaveChanges(P, text) ==
    LET parsed_dict == json_loads(text)
    IN IF ~parsed_dict.ok THEN {[dictionaries |-> P, msg |-> "error"]}
       \* .items() on a list, string, number or null: AttributeError
       ELSE IF parsed_dict.val.t # "obj" THEN {[dictionaries |-> P, msg |-> "error"]}
       ELSE IF Cleaned(parsed_dict.val.pairs) = {}
       THEN {[dictionaries |-> P, msg |-> "error"]}
       ELSE {[dictionaries |-> c, msg |-> "success"] : c \in Cleaned(parsed_dict.val.pairs)}

\* reset_to_default on stored dictionaries P and editor text `text`:
\* json.dumps runs first, and what it raises leaves the callback.
reset_to_default(P, text) ==
    LET dumped == json_dumps(DEFAULT_DICTIONARIES)
    IN IF ~dumped.ok
       THEN [dictionaries |-> P, dict_text |-> text, msg |-> "exception"]
       ELSE [dictionaries |-> DEFAULT_DICTIONARIES, dict_text |-> dumped.text,
             msg |-> "none"]

\* The editor's text area: value=json.dumps(dictionaries).
text_area(P, text) ==
    LET dumped == json_dumps(P)
    IN IF ~dumped.ok
       THEN [dict_text |-> text, msg |-> "exception"]
       ELSE [dict_text |-> dumped.text, msg |-> "none"]

(***************************************************************************)
(* Classification                                                          *)
(***************************************************************************)
RECURSIVE AnyIn(_, _)
\* any(word in lower for word in words), words in iteration order:
\* "raise" is the TypeError of `word in lower` for a word that is no string.
AnyIn(words, low) ==
    IF words = <<>> THEN "nomatch"
    ELSE IF words[1].t # "str" THEN "raise"
    ELSE IF IsSubstr(words[1].s, low) THEN "match"
    ELSE AnyIn(Tail(words), low)

\* get_tags(text) under dictionaries D.
get_tags(text, D) ==
    LET low == lower(PyStr(text))
        res == [i \in 1..Len(D) |-> AnyIn(D[i].words, low)]
        hit(e) == \E i \in 1..Len(D) : D[i].name = e /\ res[i] = "match"
    IN IF \E i \in 1..Len(D) : res[i] = "raise"
       THEN [ok |-> FALSE, tags |-> <<>>]
       ELSE [ok |-> TRUE, tags |-> SelectSeq(Names(D), hit)]

EmptyDf == [cols |-> <<>>, rows |-> <<>>]
NoOutput == [some |-> FALSE, df |-> EmptyDf]
NoUpload == [some |-> FALSE, readable |-> FALSE, df |-> EmptyDf]

\* name in df.columns
HasColumn(df, name) == \E i \in 1..Len(df.cols) : df.cols[i] = name
ColIdx(df, name) == CHOOSE i \in 1..Len(df.cols) : df.cols[i] = name
\* df[name]
Column(df, name) == [j \in 1..Len(df.rows) |-> df.rows[j][ColIdx(df, name)]]

\* df[name] = vals: replaces the column in place, or appends a new one.
SetCol(df, name, vals) ==
    IF HasColumn(df, name)
    THEN [cols |-> df.cols,
          rows |-> [j \in 1..Len(df.rows) |->
                      [df.rows[j] EXCEPT ![ColIdx(df, name)] = vals[j]]]]
    ELSE [cols |-> Append(df.cols, name),
          rows |-> [j \in 1..Len(df.rows) |-> Append(df.rows[j], vals[j])]]

\* df["Statement"].apply(get_tags): the results row by row, up to and
\* including the first row on which get_tags raises.
ApplyTags(df, D) ==
    LET res == [j \in 1..Len(df.rows) |-> get_tags(df.rows[j][ColIdx(df, STATEMENT)], D)]
        bad == {j \in 1..Len(res) : ~res[j].ok}
    IN IF bad = {} THEN [ok |-> TRUE, res |-> res]
       ELSE [ok |-> FALSE,
             res |-> SubSeq(res, 1, CHOOSE j \in bad : \A k \in bad : j <= k)]

RECURSIVE CategoryColumns(_, _, _, _)
\* for category in dictionaries: df[category] = df["Statement"].apply(...)
CategoryColumns(df, cats, D, n) ==
    IF cats = <<>> THEN [ok |-> TRUE, df |-> df, calls |-> n]
    ELSE LET a == ApplyTags(df, D)
         IN IF ~a.ok THEN [ok |-> FALSE, df |-> df, calls |-> n + Len(a.res)]
            ELSE CategoryColumns(
                    SetCol(df, cats[1],
                           [j \in 1..Len(df.rows) |->
                              Bool(\E i \in 1..Len(a.res[j].tags) :
                                      a.res[j].tags[i] = cats[1])]),
                    Tail(cats), D, n + Len(a.res))

\* "Apply classification": the Tags column, then one column per category.
Classify(df, D) ==
    LET a == ApplyTags(df, D)
        tagged == SetCol(df, TAGS,
                         [j \in 1..Len(df.rows) |-> Str(Join(<<",", " ">>, a.res[j].tags))])
        c == CategoryColumns(tagged, Names(D), D, Len(a.res))
    IN IF ~a.ok
       THEN [msg |-> "exception", output |-> NoOutput, tag_lists |-> a.res,
             calls |-> Len(a.res)]
       ELSE IF ~c.ok
       THEN [msg |-> "exception", output |-> NoOutput, tag_lists |-> a.res,
             calls |-> c.calls]
       ELSE [msg |-> "success", output |-> [some |-> TRUE, df |-> c.df],
             tag_lists |-> a.res, calls |-> c.calls]

\* A Run Classification handler without the check for the Statement column:
\* df["Statement"] then raises KeyError.
RunClassification_unchecked(up, D) ==
    IF ~up.readable
    THEN [msg |-> "read_error", output |-> NoOutput, tag_lists |-> <<>>, calls |-> 0]
    ELSE IF ~HasColumn(up.df, STATEMENT)
    THEN [msg |-> "exception", output |-> NoOutput, tag_lists |-> <<>>, calls |-> 0]
    ELSE Classify(up.df, D)

\* The Run Classification handler on upload `up` under dictionaries D.
RunClassification(up, D) ==
    IF ~up.readable
    THEN [msg |-> "read_error", output |-> NoOutput, tag_lists |-> <<>>, calls |-> 0]
    ELSE IF ~HasColumn(up.df, STATEMENT)
    THEN [msg |-> "schema_error", output |-> NoOutput, tag_lists |-> <<>>, calls |-> 0]
    ELSE Classify(up.df, D)

\* df.to_csv followed by pd.read_csv: an empty field is read back as missing.
CsvRoundTrip(df) ==
    [cols |-> df.cols,
     rows |-> [j \in 1..Len(df.rows) |->
                 [i \in 1..Len(df.cols) |->
                    IF df.rows[j][i].t = "str" /\ df.rows[j][i].s = <<>>
                    THEN NaN ELSE df.rows[j][i]]]]

(***************************************************************************)
(* Inputs: what the user types into the editor and what is uploaded        *)
(***************************************************************************)
promo == <<"p", "r", "o", "m", "o">>
sale == <<"s", "a", "l", "e">>
JStr(s) == JScalar(Str(s))
Pair(k, v) == [k |-> k, v |-> v]

RawTexts ==
    { NotJson,                                                     \* {"promo": [
      JsonText(JList(<<JStr(<<"v", "i", "p">>)>>)),                          \* ["vip"]
      JsonText(JObj(<<>>)),                                        \* {}
      JsonText(JObj(<<Pair(promo, JList(<<JStr(<<"v", "i", "p">>)>>)),       \* {"promo": ["vip"],
                      Pair(sale, JScalar(None))>>)),               \*  "sale": null}
      JsonText(JObj(<<Pair(promo, JList(<<JList(<<JStr(<<"x">>)>>)>>))>>)),  \* {"promo": [["x"]]}
      JsonText(JObj(<<Pair(promo, JList(<<JStr(<<"V", "I", "P">>)>>))>>)),   \* {"promo": ["VIP"]}
      JsonText(JObj(<<Pair(promo, JList(<<>>)),                    \* {"promo": [],
                      Pair(sale, JList(<<JStr(<<"v", "i", "p">>)>>))>>)),    \*  "sale": ["vip"]}
      JsonText(JObj(<<Pair(promo, JScalar(Num(<<"5">>))),            \* {"promo": 5,
                      Pair(sale, JList(<<JStr(<<"x">>)>>)),          \*  "sale": ["x"],
                      Pair(promo, JList(<<JStr(<<"v", "i", "p">>), JStr(<<"v", "i", "p">>)>>))>>)),  \*  "promo": ["vip", "vip"]}
      JsonText(JObj(<<Pair(STATEMENT, JList(<<JStr(<<"x">>)>>)),     \* {"Statement": ["x"],
                      Pair(promo, JList(<<JStr(<<"x">>)>>))>>)),     \*  "promo": ["x"]}
      JsonText(JObj(<<Pair(TAGS, JList(<<JStr(<<"v", "i", "p">>)>>))>>)),    \* {"Tags": ["vip"]}
      JsonText(JObj(<<Pair(promo, JList(<<JStr(<<"a", "n">>)>>))>>)),    \* {"promo": ["an"]}
      JsonText(JObj(<<Pair(promo, JList(<<JScalar(Num(<<"1">>)), JStr(<<"x">>)>>))>>)),  \* {"promo": [1, "x"]}
      JsonText(JObj(<<Pair(promo, JList(<<JStr(<<>>)>>))>>)),      \* {"promo": [""]}
      JsonText(JObj(<<Pair(promo, JStr(<<"a", "b">>))>>)) }              \* {"promo": "ab"}

\* The Statement values of uploaded rows, as pd.read_csv yields them
\* (an empty field is the missing value nan).
StatementCells == { Str(<<"H", "u", "r", "r", "y", " ", "V", "I", "P">>), Str(<<"x">>), NaN }

RECURSIVE SeqsUpTo(_, _)
\* Every sequence over S of length at most n.
SeqsUpTo(S, n) ==
    IF n = 0 THEN {<<>>}
    ELSE LET shorter == SeqsUpTo(S, n - 1)
         IN shorter \cup {Append(q, x) : q \in shorter, x \in S}

id == <<"i", "d">>
\* A frame with the Statement values `stmts` under the column `col`, after
\* the other columns `before`.
Frame(before, col, stmts) ==
    [cols |-> Append(before, col),
     rows |-> [j \in 1..Len(stmts) |->
                 Append([i \in 1..Len(before) |->
                           IF before[i] = id THEN Num(<<"7">>) ELSE Str(<<"o", "l", "d">>)],
                        stmts[j])]]

Readable(df) == [readable |-> TRUE, df |-> df]

Uploads ==
    {[readable |-> FALSE, df |-> EmptyDf]}
    \cup {Readable(Frame(<<id>>, STATEMENT, q)) : q \in SeqsUpTo(StatementCells, MaxRows)}
    \cup {Readable(Frame(<<TAGS>>, STATEMENT, <<x>>)) : x \in StatementCells}
    \cup {Readable(Frame(<<id>>, <<"s", "t", "a", "t", "e", "m", "e", "n", "t">>, <<x>>)) : x \in StatementCells}

(***************************************************************************)
(* The state machine                                                       *)
(***************************************************************************)
\* The dictionaries start as a copy of the defaults; nothing has been typed
\* (the empty editor text is not JSON), run or surfaced yet.
Init ==
    /\ dictionaries = DEFAULT_DICTIONARIES
    /\ dict_text = NotJson
    /\ msg = "none"
    /\ output = NoOutput
    /\ in_df = NoUpload
    /\ tag_lists = <<>>
    /\ calls = 0
    /\ lastOp = "init"

NoRun ==
    /\ output' = NoOutput
    /\ in_df' = NoUpload
    /\ tag_lists' = <<>>
    /\ calls' = 0

\* The user edits the text and clicks Save Changes.
Save ==
    \E text \in RawTexts :
        \E o \in SaveChanges(dictionaries, text) :
            /\ dictionaries' = o.dictionaries
            /\ msg' = o.msg
            /\ dict_text' = text
            /\ lastOp' = "save"
            /\ NoRun

\* The user clicks Reset.
Reset ==
    \E r \in {reset_to_default(dictionaries, dict_text)} :
       /\ dictionaries' = r.dictionaries
       /\ dict_text' = r.dict_text
       /\ msg' = r.msg
       /\ lastOp' = "reset"
       /\ NoRun

\* The sidebar draws the editor from the stored dictionaries.
RenderEditor ==
    \E r \in {text_area(dictionaries, dict_text)} :
       /\ dict_text' = r.dict_text
       /\ msg' = r.msg
       /\ lastOp' = "render"
       /\ UNCHANGED dictionaries
       /\ NoRun

RunOn(up, op) ==
    \E r \in {RunClassification(up, dictionaries)} :
       /\ msg' = r.msg
       /\ output' = r.output
       /\ tag_lists' = r.tag_lists
       /\ calls' = r.calls
       /\ in_df' = [some |-> TRUE, readable |-> up.readable, df |-> up.df]
       /\ lastOp' = op
       /\ UNCHANGED <<dictionaries, dict_text>>

\* The user uploads a file and clicks Run Classification.
Run ==
    \E up \in Uploads : RunOn(up, "run")

\* The user downloads the annotated CSV, uploads it again and clicks Run
\* Classification.
RunAgain ==
    /\ output.some
    /\ RunOn(Readable(CsvRoundTrip(output.df)), "rerun")

Next == Save \/ Reset \/ RenderEditor \/ Run \/ RunAgain

Spec == Init /\ [][Next]_vars

(***************************************************************************)
(* Properties                                                              *)
(***************************************************************************)
Runs == {"run", "rerun"}
\* The keyword set of each category, whatever the iteration order of the set.
AsSets(D) == [i \in 1..Len(D) |-> [name |-> D[i].name, words |-> Range(D[i].words)]]
Keys(pairs) == {pairs[i].k : i \in 1..Len(pairs)}
FirstIdx(pairs, k) == CHOOSE i \in 1..Len(pairs) :
                        pairs[i].k = k /\ \A j \in 1..(i - 1) : pairs[j].k # k
LastValue(pairs, k) == pairs[CHOOSE i \in 1..Len(pairs) :
                        pairs[i].k = k /\ \A j \in (i + 1)..Len(pairs) : pairs[j].k # k].v
\* The keywords a JSON value stands for once it is turned into a set.
ValueElems(v) ==
    IF v.t = "list" THEN {[t |-> x.t, s |-> x.s] : x \in Range(v.items)}
    ELSE IF v.t = "str" THEN {Str(<<c>>) : c \in Range(v.s)}
    ELSE {Str(k) : k \in Keys(v.pairs)}
\* D is the mapping written in `text`, each value as a set.
IsParsed(D, text) ==
    /\ text.wf
    /\ text.doc.t = "obj"
    /\ Range(Names(D)) = Keys(text.doc.pairs)
    /\ \A i, j \in 1..Len(D) :
          i < j => /\ D[i].name # D[j].name
                   /\ FirstIdx(text.doc.pairs, D[i].name) < FirstIdx(text.doc.pairs, D[j].name)
    /\ \A i \in 1..Len(D) :
          /\ Range(D[i].words) = ValueElems(LastValue(text.doc.pairs, D[i].name))
          /\ Len(D[i].words) = Cardinality(Range(D[i].words))
\* `text` is unparseable, or not a mapping, or maps a category to a value
\* that is not iterable.
Malformed(text) ==
    \/ ~text.wf
    \/ text.doc.t # "obj"
    \/ \E k \in Keys(text.doc.pairs) :
          LastValue(text.doc.pairs, k).t \notin {"list", "str", "obj"}

\* C1: Save Changes is all-or-nothing.  After it the stored dictionaries are
\* either exactly the mapping written in the text, each value as a set (and
\* success is reported), or exactly the dictionaries stored before (and an
\* error is reported); text that is unparseable, not a mapping or has a
\* non-iterable value always ends the second way.
C1_LoadAllOrNothing ==
    [][lastOp' = "save" =>
          /\ \/ msg' = "success" /\ IsParsed(dictionaries', dict_text')
             \/ msg' = "error" /\ dictionaries' = dictionaries
          /\ Malformed(dict_text') => msg' = "error"]_vars

\* A save failed on the second category of a mapping whose first category
\* converts, and dictionaries loaded earlier are still stored, without it.
C1_Witness ==
    /\ lastOp = "save"
    /\ msg = "error"
    /\ dict_text.wf
    /\ dict_text.doc.t = "obj"
    /\ Len(dict_text.doc.pairs) = 2
    /\ PySet(dict_text.doc.pairs[1].v).ok
    /\ dictionaries # DEFAULT_DICTIONARIES
    /\ dict_text.doc.pairs[1].k \notin Range(Names(dictionaries))

\* C2: Reset never fails and leaves exactly the default dictionaries stored.
C2_ResetRestoresDefault ==
    lastOp = "reset" =>
        /\ msg # "exception"
        /\ AsSets(dictionaries) = AsSets(DEFAULT_DICTIONARIES)

\* The categories of D with a keyword whose lowercased form is a substring
\* of the lowercased string form of text, in D's order.
CaseInsensitiveMatches(text, D) ==
    LET hit(e) == \E i \in 1..Len(D) :
                    /\ D[i].name = e
                    /\ \E w \in Range(D[i].words) :
                          w.t = "str" /\ IsSubstr(lower(w.s), lower(PyStr(text)))
    IN SelectSeq(Names(D), hit)

HasStatement(df) == STATEMENT \in Range(df.cols)
\* The value of row j under column `name`.
Cell(df, j, name) == df.rows[j][CHOOSE i \in 1..Len(df.cols) : df.cols[i] = name]

\* C3: get_tags returns exactly the categories with a keyword that occurs in
\* the text when both are lowercased, in dictionary order.
C3_CaseInsensitiveMatch ==
    (lastOp = "run" /\ in_df.readable /\ HasStatement(in_df.df)) =>
        \A j \in 1..Len(tag_lists) :
            tag_lists[j].ok =>
                tag_lists[j].tags =
                    CaseInsensitiveMatches(Cell(in_df.df, j, STATEMENT), dictionaries)

\* C4: After a classification, in every row Tags is the ", "-joined list of
\* the categories matched by the row's original Statement, and the column of
\* each category is true exactly for the categories in that list.
C4_TagsAgreeWithFlags ==
    (lastOp \in Runs /\ msg = "success") =>
        \A j \in 1..Len(output.df.rows) :
            /\ Cell(output.df, j, TAGS) = Str(Join(<<",", " ">>, tag_lists[j].tags))
            /\ \A c \in Range(Names(dictionaries)) :
                  Cell(output.df, j, c) = Bool(c \in Range(tag_lists[j].tags))

\* C5: Without a column named exactly Statement the run stops with the
\* schema error before get_tags is evaluated: nothing is offered for
\* download and the stored dictionaries are unchanged.
C5_MissingStatementHalts ==
    [][(lastOp' \in Runs /\ in_df'.readable /\ ~HasStatement(in_df'.df)) =>
          /\ msg' = "schema_error"
          /\ calls' = 0
          /\ tag_lists' = <<>>
          /\ ~output'.some
          /\ dictionaries' = dictionaries]_vars

\* A file with rows and a column "statement" but none named "Statement" was
\* run under edited dictionaries and stopped with the schema error.
C5_Witness ==
    /\ lastOp = "run"
    /\ in_df.readable
    /\ Len(in_df.df.rows) > 0
    /\ ~HasStatement(in_df.df)
    /\ \E i \in 1..Len(in_df.df.cols) : lower(in_df.df.cols[i]) = lower(STATEMENT)
    /\ dictionaries # DEFAULT_DICTIONARIES
    /\ msg = "schema_error"

\* C6: The output keeps every original column with its values, and its
\* columns are the original ones, then Tags, then the categories in order.
C6_OriginalFieldsKept ==
    (lastOp = "run" /\ msg = "success") =>
        /\ output.df.cols = in_df.df.cols \o <<TAGS>> \o Names(dictionaries)
        /\ \A j \in 1..Len(in_df.df.rows) :
              \A i \in 1..Len(in_df.df.cols) :
                  output.df.rows[j][i] = in_df.df.rows[j][i]

\* C7: Classifying the result of a classification again, under the same
\* dictionaries, yields the same Tags and category columns.
C7_Idempotent ==
    lastOp = "rerun" =>
        /\ msg = "success"
        /\ \A c \in {TAGS} \cup Range(Names(dictionaries)) :
              Column(CsvRoundTrip(output.df), c) = Column(in_df.df, c)

\* C8: The stored dictionaries serialize to the editor text, and saving that
\* text stores the same dictionaries again.
C8_RoundTrip ==
    lastOp = "render" =>
        /\ msg # "exception"
        /\ \E o \in SaveChanges(dictionaries, dict_text) :
              o.msg = "success" /\ AsSets(o.dictionaries) = AsSets(dictionaries)

NonEmptyStrings(D) ==
    \A i \in 1..Len(D) : \A w \in Range(D[i].words) : w.t = "str" /\ w.s # <<>>

\* C9: When no keyword is the empty string, a row whose Statement is missing
\* matches no category.
C9_MissingMatchesNothing ==
    (lastOp = "run" /\ in_df.readable /\ HasStatement(in_df.df)
        /\ NonEmptyStrings(dictionaries)) =>
        \A j \in 1..Len(tag_lists) :
            Cell(in_df.df, j, STATEMENT) = NaN =>
                tag_lists[j] = [ok |-> TRUE, tags |-> <<>>]

\* C10: get_tags never fails, whatever was loaded: a classification of a
\* readable file never ends in an uncaught exception.
C10_GetTagsNeverFails ==
    (lastOp \in Runs /\ in_df.readable) => msg # "exception"
====
